---- MODULE Spec2Model ----
(***************************************************************************)
(* Model of the transcript parser of Google-Meet-Summarizer                *)
(* (src/vtt_parser.py, class VTTParser).  A Python str is a sequence of    *)
(* one-character strings; parse_vtt_file is run block by block, followed   *)
(* by get_conversation_text and get_meeting_stats as the worker in         *)
(* src/meeting_summarizer.py calls them.                                   *)
(***************************************************************************)
EXTENDS Integers, Sequences, FiniteSets, TLC

\* ------------------------------------------------------------------------
\* Bounds of the model
\* ------------------------------------------------------------------------
\* number of blocks of a document drawn from BlockPool
MaxBlocks == 2
\* number of blocks of a document drawn from TurnPool
MaxTurns == 3
\* number of calls the first caller makes on the shared parser
MaxCalls == 2
\* number of files of one selection
MaxFiles == 2
\* number of worker threads alive at a time
MaxWorkers == 2

\* ------------------------------------------------------------------------
\* Python str primitives
\* ------------------------------------------------------------------------
\* str.isspace() for the characters of the alphabet (str.strip, str.split,
\* and \s of the re module all use it)
IsSpace(c) == c \in {" ", "\n", "\t"}

RECURSIVE LStrip(_)
LStrip(s) ==
  IF s = <<>> THEN <<>>
  ELSE IF IsSpace(Head(s)) THEN LStrip(Tail(s)) ELSE s

RECURSIVE RStrip(_)
RStrip(s) ==
  IF s = <<>> THEN <<>>
  ELSE IF IsSpace(s[Len(s)]) THEN RStrip(SubSeq(s, 1, Len(s) - 1)) ELSE s

\* str.strip()
Strip(s) == RStrip(LStrip(s))

\* sep occurs in s at position i
OccursAt(s, sep, i) ==
  /\ i + Len(sep) - 1 <= Len(s)
  /\ SubSeq(s, i, i + Len(sep) - 1) = sep

\* str.find(sep, i), 1-based; 0 when sep does not occur at or after i
RECURSIVE Find(_, _, _)
Find(s, sep, i) ==
  IF i + Len(sep) - 1 > Len(s) THEN 0
  ELSE IF OccursAt(s, sep, i) THEN i
  ELSE Find(s, sep, i + 1)

\* sub in s
Contains(s, sub) == Find(s, sub, 1) # 0

\* str.split(sep): non-overlapping occurrences, scanned left to right
RECURSIVE SplitOn(_, _)
SplitOn(s, sep) ==
  LET k == Find(s, sep, 1) IN
  IF k = 0 THEN << s >>
  ELSE << SubSeq(s, 1, k - 1) >> \o SplitOn(SubSeq(s, k + Len(sep), Len(s)), sep)

\* sep.join(parts)
RECURSIVE Join(_, _)
Join(parts, sep) ==
  IF parts = <<>> THEN <<>>
  ELSE IF Len(parts) = 1 THEN parts[1]
  ELSE parts[1] \o sep \o Join(Tail(parts), sep)

\* len(str.split()): number of whitespace-delimited tokens, scanned left to
\* right; inTok says that the previous character belonged to a token
RECURSIVE CountTokens(_, _)
CountTokens(s, inTok) ==
  IF s = <<>> THEN 0
  ELSE IF IsSpace(Head(s)) THEN CountTokens(Tail(s), FALSE)
  ELSE (IF inTok THEN 0 ELSE 1) + CountTokens(Tail(s), TRUE)

\* variant: len(text.split(' ')), every single space separates
WordCountSingleSpace(text) ==
  1 + Cardinality({ i \in 1..Len(text) : text[i] = " " })

WordCount(text) == CountTokens(text, FALSE)

\* ------------------------------------------------------------------------
\* VTTParser helpers
\* ------------------------------------------------------------------------
\* _parse_timestamp: the two first parts of the split on ' --> ', trimmed;
\* times[1] of a one-part split raises IndexError, caught by the bare except
ParseTimestamp(timestamp_line) ==
  LET times == SplitOn(timestamp_line, <<" ", "-", "-", ">", " ">>) IN
  IF Len(times) >= 2
  THEN [start_time |-> Strip(times[1]), end_time |-> Strip(times[2])]
  ELSE [start_time |-> <<>>, end_time |-> <<>>]

\* [^:]+ : length of the longest leading run of characters other than ':'
RECURSIVE NonColonRun(_)
NonColonRun(s) ==
  IF s = <<>> \/ Head(s) = ":" THEN 0 ELSE 1 + NonColonRun(Tail(s))

\* \s* : length of the longest leading run of whitespace
RECURSIVE SpaceRun(_)
SpaceRun(s) ==
  IF s = <<>> \/ ~IsSpace(Head(s)) THEN 0 ELSE 1 + SpaceRun(Tail(s))

\* (.+)$ against the whole of r: one or more characters other than '\n',
\* up to the end of the string or to a newline that ends the string
DotPlusEnd(r) ==
  LET body == IF r # <<>> /\ r[Len(r)] = "\n"
              THEN SubSeq(r, 1, Len(r) - 1) ELSE r
      dots(t) == t # <<>> /\ \A i \in 1..Len(t) : t[i] # "\n"
  IN  IF dots(r) THEN [ok |-> TRUE, g |-> r]
      ELSE IF dots(body) THEN [ok |-> TRUE, g |-> body]
      ELSE [ok |-> FALSE, g |-> <<>>]

\* \s*(.+)$ : \s* is greedy and gives characters back one at a time until
\* (.+)$ matches; k is the number of characters \s* currently holds
RECURSIVE RestMatch(_, _)
RestMatch(r, k) ==
  IF k < 0 THEN [ok |-> FALSE, g |-> <<>>]
  ELSE LET m == DotPlusEnd(SubSeq(r, k + 1, Len(r))) IN
       IF m.ok THEN m ELSE RestMatch(r, k - 1)

\* variant: r'^(.+):\s*(.+)$', the speaker group runs to the last colon
\* that leaves something to match
SpeakerPatternGreedy(s) ==
  LET C == { i \in 2..Len(s) :
               s[i] = ":" /\ RestMatch(SubSeq(s, i + 1, Len(s)),
                                       SpaceRun(SubSeq(s, i + 1, Len(s)))).ok }
      n == (CHOOSE i \in C : \A j \in C : j <= i) - 1
      r == SubSeq(s, n + 2, Len(s))
  IN  IF C # {}
      THEN [ok |-> TRUE, g1 |-> SubSeq(s, 1, n),
            g2 |-> RestMatch(r, SpaceRun(r)).g]
      ELSE [ok |-> FALSE, g1 |-> <<>>, g2 |-> <<>>]

\* re.match(r'^([^:]+):\s*(.+)$', s)
SpeakerPattern(s) ==
  LET n == NonColonRun(s)
      r == SubSeq(s, n + 2, Len(s))
      m == RestMatch(r, SpaceRun(r))
  IN  IF n >= 1 /\ n + 1 <= Len(s) /\ m.ok
      THEN [ok |-> TRUE, g1 |-> SubSeq(s, 1, n), g2 |-> m.g]
      ELSE [ok |-> FALSE, g1 |-> <<>>, g2 |-> <<>>]

\* _extract_speaker_and_text
ExtractSpeakerAndText(speaker_text) ==
  LET match == SpeakerPattern(speaker_text) IN
  IF match.ok
  THEN [speaker |-> Strip(match.g1), text |-> Strip(match.g2)]
  ELSE [speaker |-> <<>>, text |-> speaker_text]

\* the lines of a block: block.strip().split('\n')
BlockLines(block) == SplitOn(Strip(block), << "\n" >>)

\* variant: the check of '-->' on the timestamp line is missing
SkipsBlockNoMarkerCheck(block) ==
  \/ Strip(block) = <<>>
  \/ Strip(block) = <<"W", "E", "B", "V", "T", "T">>
  \/ Len(BlockLines(block)) < 3

\* the guards of the loop body of parse_vtt_file that 'continue'
SkipsBlock(block) ==
  \/ Strip(block) = <<>>
  \/ Strip(block) = <<"W", "E", "B", "V", "T", "T">>
  \/ Len(BlockLines(block)) < 3
  \/ ~Contains(BlockLines(block)[2], <<"-", "-", ">">>)

\* ' '.join(lines[2:]) of a block that was not skipped
SpeakerText(block) ==
  LET lines == BlockLines(block) IN
  Join(SubSeq(lines, 3, Len(lines)), << " " >>)

\* variant: if speaker or text
KeepsEntryEither(speaker, text) == speaker # <<>> \/ text # <<>>

\* if speaker and text
KeepsEntry(speaker, text) == speaker # <<>> /\ text # <<>>

\* the dict appended to conversations
Entry(block) ==
  LET ts == ParseTimestamp(BlockLines(block)[2])
      st == ExtractSpeakerAndText(SpeakerText(block))
  IN  [start_time |-> ts.start_time, end_time |-> ts.end_time,
       speaker |-> st.speaker, text |-> Strip(st.text)]

\* variant: speakers.add(speaker) before the check of speaker and text
LoopSpeakersUnchecked(spk, block) ==
  IF SkipsBlock(block) THEN spk
  ELSE spk \cup {ExtractSpeakerAndText(SpeakerText(block)).speaker}

\* speakers after one pass of the loop body
LoopSpeakers(spk, block) ==
  IF SkipsBlock(block) THEN spk
  ELSE LET st == ExtractSpeakerAndText(SpeakerText(block)) IN
       IF KeepsEntry(st.speaker, st.text) THEN spk \cup {st.speaker} ELSE spk

\* variant: conversations.insert(0, ...) instead of append
LoopConversationsPrepend(convs, block) ==
  IF SkipsBlock(block) THEN convs
  ELSE LET st == ExtractSpeakerAndText(SpeakerText(block)) IN
       IF KeepsEntry(st.speaker, st.text) THEN << Entry(block) >> \o convs
       ELSE convs

\* conversations after one pass of the loop body
LoopConversations(convs, block) ==
  IF SkipsBlock(block) THEN convs
  ELSE LET st == ExtractSpeakerAndText(SpeakerText(block)) IN
       IF KeepsEntry(st.speaker, st.text) THEN Append(convs, Entry(block))
       ELSE convs

\* None, as returned by parse_vtt_file when reading fails
None == [is_none |-> TRUE]

\* the empty dict {}
EmptyDict == [k \in {} |-> 0]

\* the for loop of get_conversation_text and the "Add the last block" step
RECURSIVE TextLoop(_, _, _, _)
TextLoop(convs, text_blocks, current_speaker, current_text) ==
  IF convs = <<>>
  THEN IF current_speaker # <<>> /\ current_text # <<>>
       THEN Append(text_blocks, current_speaker \o <<":", " ">> \o current_text)
       ELSE text_blocks
  ELSE LET speaker == Head(convs).speaker
           text == Head(convs).text
       IN  IF speaker = current_speaker
           THEN TextLoop(Tail(convs), text_blocks, current_speaker,
                         current_text \o << " " >> \o text)
           ELSE TextLoop(Tail(convs),
                         IF current_speaker # <<>> /\ current_text # <<>>
                         THEN Append(text_blocks,
                                current_speaker \o <<":", " ">> \o current_text)
                         ELSE text_blocks,
                         speaker, text)

\* variant: one paragraph per utterance, consecutive utterances of a speaker
\* are not merged
GetConversationTextNoMerge(parsed_data) ==
  IF parsed_data = None \/ "conversations" \notin DOMAIN parsed_data
  THEN <<>>
  ELSE Join([i \in 1..Len(parsed_data.conversations) |->
               parsed_data.conversations[i].speaker \o <<":", " ">>
                 \o parsed_data.conversations[i].text],
            << "\n", "\n" >>)

\* get_conversation_text
GetConversationText(parsed_data) ==
  IF parsed_data = None \/ "conversations" \notin DOMAIN parsed_data
  THEN <<>>
  ELSE Join(TextLoop(parsed_data.conversations, <<>>, <<>>, <<>>),
            << "\n", "\n" >>)

\* the per-speaker word count loop of get_meeting_stats
RECURSIVE StatsLoop(_, _)
StatsLoop(convs, speaker_stats) ==
  IF convs = <<>> THEN speaker_stats
  ELSE LET speaker == Head(convs).speaker
           word_count == WordCount(Head(convs).text)
       IN  IF speaker # <<>>
           THEN IF speaker \in DOMAIN speaker_stats
                THEN StatsLoop(Tail(convs),
                       [speaker_stats EXCEPT ![speaker] = @ + word_count])
                ELSE StatsLoop(Tail(convs),
                       speaker_stats @@ (speaker :> word_count))
           ELSE StatsLoop(Tail(convs), speaker_stats)

\* variant: end_time of the first utterance instead of the last
DurationOfFirst(convs) ==
  convs[1].start_time \o <<" ", "t", "o", " ">> \o convs[1].end_time

\* f"{start_time} to {end_time}"
Duration(convs) ==
  convs[1].start_time \o <<" ", "t", "o", " ">> \o convs[Len(convs)].end_time

\* variant: zero counts and an empty duration instead of {} when there are
\* no conversations
GetMeetingStatsZeroed(parsed_data) ==
  IF parsed_data = None THEN EmptyDict
  ELSE IF parsed_data.conversations = <<>>
  THEN [duration |-> <<>>, total_speakers |-> 0, total_entries |-> 0,
        speaker_word_counts |-> EmptyDict]
  ELSE [duration |-> Duration(parsed_data.conversations),
        total_speakers |-> Cardinality(parsed_data.speakers),
        total_entries |-> Len(parsed_data.conversations),
        speaker_word_counts |-> StatsLoop(parsed_data.conversations, EmptyDict)]

\* variant: total_speakers counts the entries
GetMeetingStatsCountsEntries(parsed_data) ==
  IF parsed_data = None THEN EmptyDict
  ELSE IF parsed_data.conversations = <<>> THEN EmptyDict
  ELSE [duration |-> Duration(parsed_data.conversations),
        total_speakers |-> Len(parsed_data.conversations),
        total_entries |-> Len(parsed_data.conversations),
        speaker_word_counts |-> StatsLoop(parsed_data.conversations, EmptyDict)]

\* get_meeting_stats
GetMeetingStats(parsed_data) ==
  IF parsed_data = None THEN EmptyDict
  ELSE IF parsed_data.conversations = <<>> THEN EmptyDict
  ELSE [duration |-> Duration(parsed_data.conversations),
        total_speakers |-> Cardinality(parsed_data.speakers),
        total_entries |-> Len(parsed_data.conversations),
        speaker_word_counts |-> StatsLoop(parsed_data.conversations, EmptyDict)]

\* the subscripts conv['speaker'] and conv['text'] of the loop raise KeyError
EntryKeysMissing(convs) ==
  \E k \in 1..Len(convs) : ~({"speaker", "text"} \subseteq DOMAIN convs[k])

\* get_conversation_text raises
TextRaises(parsed_data) ==
  /\ parsed_data # None
  /\ "conversations" \in DOMAIN parsed_data
  /\ EntryKeysMissing(parsed_data.conversations)

\* variant: the 'if not conversations' guard is missing, conversations[0]
\* raises IndexError on the empty list
StatsRaisesNoGuard(parsed_data) ==
  /\ parsed_data # None
  /\ \/ parsed_data.conversations = <<>>
     \/ EntryKeysMissing(parsed_data.conversations)

\* get_meeting_stats raises: conversations[0]['start_time'],
\* conversations[-1]['end_time'] and the subscripts of the loop
StatsRaises(parsed_data) ==
  /\ parsed_data # None
  /\ parsed_data.conversations # <<>>
  /\ \/ "start_time" \notin DOMAIN parsed_data.conversations[1]
     \/ "end_time" \notin
          DOMAIN parsed_data.conversations[Len(parsed_data.conversations)]
     \/ EntryKeysMissing(parsed_data.conversations)

\* ------------------------------------------------------------------------
\* Documents
\* ------------------------------------------------------------------------
NL == << "\n" >>
Arrow == <<" ", "-", "-", ">", " ">>
T05 == <<"0", "5">>
T17 == <<"1", "7">>
T29 == <<"2", "9">>
T41 == <<"4", "1">>
AHi == <<"A", ":", " ", "h", "i">>

\* cue id, timestamp line, content
Cue(id, from, to, body) == << id >> \o NL \o from \o Arrow \o to \o NL \o body

\* well-formed cues of two speakers, and a continuation without a label
TurnPool ==
  { Cue("1", T05, T17, AHi),
    Cue("2", T17, T29, <<"A", ":", " ", "t", "h", "e", "r", "e">>),
    Cue("3", T29, T41, <<"B", ":", " ", "y", "o">>),
    Cue("4", T29, T41, <<"t", "h", "e", "r", "e">>) }

\* blocks with irregular structure
BlockPool ==
  { \* irregular timestamp lines
    Cue("1", T05, T17, AHi),
    <<"1">> \o NL \o T05 \o <<"-", "-", ">">> \o T17 \o NL \o AHi,
    <<"1">> \o NL \o T05 \o Arrow \o T17 \o Arrow \o T29 \o NL \o AHi,
    <<"1">> \o NL \o T05 \o T17 \o NL \o AHi,
    T05 \o Arrow \o T17 \o NL \o AHi,
    NL \o Cue("1", T05, T17, AHi),
    \* irregular content lines
    Cue("2", T17, T29, <<"B", " ", ":", "y", "o", ":", " ", "x">>),
    Cue("2", T17, T29, <<" ", ":", " ", "h", "i">>),
    Cue("2", T17, T29, <<"A", ":", " ">>),
    Cue("2", T17, T29, <<"h", "i">>),
    Cue("2", T17, T29, <<":", "h", "i">>),
    Cue("2", T17, T29, <<"A", ":", " ", "o", "n", "e", " ", "t", "w", "o",
                         " ", "t", "h", "r", "e", "e">>),
    Cue("2", T17, T29, <<"B", ":", " ", "y", "o">> \o NL
                         \o <<" ", "x", " ", " ", "y", ":">>),
    \* header and empty blocks
    <<"W", "E", "B", "V", "T", "T">>,
    << " " >> }

\* all sequences of at most n elements of pool
SeqsUpTo(pool, n) == UNION { [1..k -> pool] : k \in 0..n }

\* documents: blocks separated by a blank line
Docs ==
  { Join(bs, NL \o NL) : bs \in SeqsUpTo(BlockPool, MaxBlocks) }
    \cup { Join(bs, NL \o NL) : bs \in SeqsUpTo(TurnPool, MaxTurns) }

\* documents of the callers that share one parser
SharedDocs ==
  { <<>>,
    Cue("1", T05, T17, AHi),
    Join(<< Cue("3", T29, T41, <<"B", ":", " ", "y", "o">>),
            Cue("4", T29, T41, <<"t", "h", "e", "r", "e">>),
            Cue("1", T05, T17, AHi) >>, NL \o NL) }

FilePath == "meeting.vtt"

\* ------------------------------------------------------------------------
\* State
\* ------------------------------------------------------------------------
VARIABLES
  content,            \* text of the file at file_path
  pc,                 \* position of the caller
  blocks,             \* parse_vtt_file: content.split('\n\n')
  bi,                 \* parse_vtt_file: index of the block the loop is at
  conversations,      \* parse_vtt_file: local list
  speakers,           \* parse_vtt_file: local set
  parsed_data,        \* result of parse_vtt_file
  conversation_text,  \* result of get_conversation_text
  stats,              \* result of get_meeting_stats
  self_speakers,      \* VTTParser.speakers
  self_conversations, \* VTTParser.conversations
  history,            \* the calls on the parser that have ended, in order
  t2,                 \* locals of a second caller of parse_vtt_file
  api_key,            \* MeetingSummarizerGUI.api_key
  summarizer,         \* MeetingSummarizerGUI.summarizer: "None" or its key
  selected_files,     \* MeetingSummarizerGUI.selected_files
  process_btn,        \* state of process_btn
  select_btn,         \* state of select_btn
  clear_btn,          \* state of clear_btn
  save_btn,           \* state of save_btn
  api_status_label,   \* text of api_status_label
  status_label,       \* text of status_label, without the file name
  results_text,       \* entries of results_text
  afterq,             \* callbacks given to root.after(0, ...), in order
  threads,            \* the worker threads that are alive
  completions         \* _processing_complete scheduled since process_files

\* the window
gui == << api_key, summarizer, selected_files, process_btn, select_btn,
          clear_btn, save_btn, api_status_label, status_label, results_text,
          afterq, threads, completions >>

\* what the steps of the first caller leave alone
others == << history, t2, gui >>

vars == << content, pc, blocks, bi, conversations, speakers, parsed_data,
           conversation_text, stats, self_speakers, self_conversations,
           history, t2, gui >>

\* the window as setup_ui leaves it, no key configured
GuiIdle ==
  /\ api_key = "None"
  /\ summarizer = "None"
  /\ selected_files = <<>>
  /\ process_btn = "disabled"
  /\ select_btn = "normal"
  /\ clear_btn = "normal"
  /\ save_btn = "disabled"
  /\ api_status_label = "API Key Not Configured"
  /\ status_label = "Ready"
  /\ results_text = <<>>
  /\ afterq = <<>>
  /\ threads = <<>>
  /\ completions = 0

\* a caller that makes no call
Idle2 == [pc |-> "idle", content |-> <<>>, blocks |-> <<>>, bi |-> 0,
          conversations |-> <<>>, speakers |-> {}, parsed_data |-> None]

\* one call on a fresh parser, nothing else going on
OthersInit ==
  /\ history = <<>>
  /\ t2 = Idle2
  /\ GuiIdle

Init ==
  /\ content \in Docs
  /\ pc = "start"
  /\ blocks = <<>>
  /\ bi = 0
  /\ conversations = <<>>
  /\ speakers = {}
  /\ parsed_data = None
  /\ conversation_text = <<>>
  /\ stats = EmptyDict
  /\ self_speakers = {}
  /\ self_conversations = <<>>
  /\ OthersInit

\* the dict returned by parse_vtt_file
ParseResult(convs, spk) ==
  [conversations |-> convs, speakers |-> spk,
   total_entries |-> Len(convs), file_path |-> FilePath]

\* variant: the except clause returns the result of an empty document
ReadFailsAsEmpty ==
  /\ pc = "start"
  /\ parsed_data' = ParseResult(<<>>, {})
  /\ pc' = "failed"
  /\ UNCHANGED << content, blocks, bi, conversations, speakers,
                  conversation_text, stats, self_speakers, self_conversations >>
  /\ UNCHANGED others

\* open/read raises: the except clause prints and returns None
ReadFails ==
  /\ pc = "start"
  /\ parsed_data' = None
  /\ pc' = "failed"
  /\ UNCHANGED << content, blocks, bi, conversations, speakers,
                  conversation_text, stats, self_speakers, self_conversations >>
  /\ UNCHANGED others

\* variant: the accumulators are not created anew by the call
ReadAndSplitKeeps ==
  /\ pc = "start"
  /\ blocks' = SplitOn(content, NL \o NL)
  /\ bi' = 1
  /\ pc' = "loop"
  /\ UNCHANGED << content, conversations, speakers, parsed_data,
                  conversation_text, stats, self_speakers, self_conversations >>
  /\ UNCHANGED others

\* file.read(), content.split('\n\n'), the two empty accumulators
ReadAndSplit ==
  /\ pc = "start"
  /\ blocks' = SplitOn(content, NL \o NL)
  /\ bi' = 1
  /\ conversations' = <<>>
  /\ speakers' = {}
  /\ pc' = "loop"
  /\ UNCHANGED << content, parsed_data, conversation_text, stats,
                  self_speakers, self_conversations >>
  /\ UNCHANGED others

\* one pass of 'for block in blocks'
LoopBody ==
  /\ pc = "loop"
  /\ bi <= Len(blocks)
  /\ conversations' = LoopConversations(conversations, blocks[bi])
  /\ speakers' = LoopSpeakers(speakers, blocks[bi])
  /\ bi' = bi + 1
  /\ UNCHANGED << content, pc, blocks, parsed_data, conversation_text, stats,
                  self_speakers, self_conversations >>
  /\ UNCHANGED others

ParseReturn ==
  /\ pc = "loop"
  /\ bi > Len(blocks)
  /\ parsed_data' = ParseResult(conversations, speakers)
  /\ pc' = "parsed"
  /\ UNCHANGED << content, blocks, bi, conversations, speakers,
                  conversation_text, stats, self_speakers, self_conversations >>
  /\ UNCHANGED others

\* conversation_text = self.parser.get_conversation_text(parsed_data)
ConversationText ==
  /\ pc = "parsed"
  /\ IF TextRaises(parsed_data)
     THEN pc' = "raised" /\ UNCHANGED conversation_text
     ELSE /\ conversation_text' = GetConversationText(parsed_data)
          /\ pc' = "texted"
  /\ UNCHANGED << content, blocks, bi, conversations, speakers, parsed_data,
                  stats, self_speakers, self_conversations >>
  /\ UNCHANGED others

\* stats = self.parser.get_meeting_stats(parsed_data)
MeetingStats ==
  /\ pc = "texted"
  /\ IF StatsRaises(parsed_data)
     THEN pc' = "raised" /\ UNCHANGED stats
     ELSE /\ stats' = GetMeetingStats(parsed_data)
          /\ pc' = "done"
  /\ UNCHANGED << content, blocks, bi, conversations, speakers, parsed_data,
                  conversation_text, self_speakers, self_conversations >>
  /\ UNCHANGED others

Next ==
  \/ ReadFails
  \/ ReadAndSplit
  \/ LoopBody
  \/ ParseReturn
  \/ ConversationText
  \/ MeetingStats

Spec == Init /\ [][Next]_vars

\* ------------------------------------------------------------------------
\* Several calls on one parser: the first caller calls again and again, as
\* the worker does for each selected file, a second caller runs one
\* parse_vtt_file on the same VTTParser at the same time
\* ------------------------------------------------------------------------
InitCalls ==
  /\ content \in SharedDocs
  /\ pc = "start"
  /\ blocks = <<>>
  /\ bi = 0
  /\ conversations = <<>>
  /\ speakers = {}
  /\ parsed_data = None
  /\ conversation_text = <<>>
  /\ stats = EmptyDict
  /\ self_speakers = {}
  /\ self_conversations = <<>>
  /\ history = <<>>
  /\ \E d \in SharedDocs : t2 = [Idle2 EXCEPT !.pc = "start", !.content = d]
  /\ GuiIdle

\* the first caller goes on to its next file
NextCall ==
  /\ pc \in {"done", "failed"}
  /\ Len(history) < MaxCalls - 1
  /\ history' = Append(history, [content |-> content, ok |-> pc = "done",
                                 parsed_data |-> parsed_data, stats |-> stats])
  /\ content' \in SharedDocs
  /\ pc' = "start"
  /\ UNCHANGED << blocks, bi, conversations, speakers, parsed_data,
                  conversation_text, stats, self_speakers, self_conversations,
                  t2, gui >>

first == << content, pc, blocks, bi, conversations, speakers, parsed_data,
            conversation_text, stats, self_speakers, self_conversations,
            history, gui >>

\* second caller: file.read(), content.split('\n\n'), empty accumulators
T2ReadAndSplit ==
  /\ t2.pc = "start"
  /\ t2' = [t2 EXCEPT !.blocks = SplitOn(t2.content, NL \o NL), !.bi = 1,
                      !.conversations = <<>>, !.speakers = {}, !.pc = "loop"]
  /\ UNCHANGED first

\* second caller: one pass of 'for block in blocks'
T2LoopBody ==
  /\ t2.pc = "loop"
  /\ t2.bi <= Len(t2.blocks)
  /\ t2' = [t2 EXCEPT
             !.conversations = LoopConversations(@, t2.blocks[t2.bi]),
             !.speakers = LoopSpeakers(@, t2.blocks[t2.bi]),
             !.bi = @ + 1]
  /\ UNCHANGED first

\* second caller: return of parse_vtt_file
T2ParseReturn ==
  /\ t2.pc = "loop"
  /\ t2.bi > Len(t2.blocks)
  /\ t2' = [t2 EXCEPT !.parsed_data = ParseResult(t2.conversations, t2.speakers),
                      !.pc = "parsed"]
  /\ UNCHANGED first

NextCalls ==
  \/ ReadFails
  \/ ReadAndSplit
  \/ LoopBody
  \/ ParseReturn
  \/ ConversationText
  \/ MeetingStats
  \/ NextCall
  \/ T2ReadAndSplit
  \/ T2LoopBody
  \/ T2ParseReturn

SpecCalls == InitCalls /\ [][NextCalls]_vars

\* ------------------------------------------------------------------------
\* The window: MeetingSummarizerGUI (src/meeting_summarizer.py).  The
\* handlers run on the Tk main loop, one at a time; the worker thread talks
\* to it through root.after(0, ...) only.
\* ------------------------------------------------------------------------
Files == {"a.vtt", "b.vtt", "c.vtt"}
Keys == {"good", "bad"}

\* what filedialog.askopenfilenames can return, besides nothing
Selections ==
  { fs \in UNION { [1..n -> Files] : n \in 1..MaxFiles } :
      \A i, j \in 1..Len(fs) : i # j => fs[i] # fs[j] }

\* the parser variables while the window is looked at alone
parser == << content, pc, blocks, bi, conversations, speakers, parsed_data,
             conversation_text, stats, self_speakers, self_conversations,
             history, t2 >>

\* test_api_connection: the key is valid and the service answers
TestApiConnection(key, net) == key = "good" /\ net

\* check_api_key: the summarizer it leaves
CheckApiKeySummarizer(key, summ) == IF key # "None" THEN key ELSE summ

\* check_api_key: the text of api_status_label it leaves
CheckApiKeyLabel(key, label, net) ==
  IF key = "None" THEN label
  ELSE IF TestApiConnection(key, net) THEN "API Connected"
  ELSE "API Key Invalid"

\* __init__: the key of .env or of the environment, setup_ui, check_api_key
InitGUI ==
  /\ content = <<>>
  /\ pc = "start"
  /\ blocks = <<>>
  /\ bi = 0
  /\ conversations = <<>>
  /\ speakers = {}
  /\ parsed_data = None
  /\ conversation_text = <<>>
  /\ stats = EmptyDict
  /\ self_speakers = {}
  /\ self_conversations = <<>>
  /\ history = <<>>
  /\ t2 = Idle2
  /\ api_key \in {"None"} \cup Keys
  /\ summarizer = CheckApiKeySummarizer(api_key, "None")
  /\ \E net \in BOOLEAN :
       api_status_label =
         CheckApiKeyLabel(api_key, "API Key Not Configured", net)
  /\ selected_files = <<>>
  /\ process_btn = "disabled"
  /\ select_btn = "normal"
  /\ clear_btn = "normal"
  /\ save_btn = "disabled"
  /\ status_label = "Ready"
  /\ results_text = <<>>
  /\ afterq = <<>>
  /\ threads = <<>>
  /\ completions = 0

\* update_process_button_state
ProcessBtnState(files, summ) ==
  IF files # <<>> /\ summ # "None" THEN "normal" ELSE "disabled"

\* setup_api_key: the key typed in the dialog ("None": cancelled, " ":
\* blank), the two connection tests
SetupApiKey ==
  /\ \E input \in {"None", " "} \cup Keys, net1, net2 \in BOOLEAN :
       IF input \in {"None", " "}
       THEN UNCHANGED << api_key, summarizer, api_status_label >>
       ELSE /\ api_key' = input
            /\ IF TestApiConnection(input, net1)
               THEN /\ summarizer' = CheckApiKeySummarizer(input, input)
                    /\ api_status_label' =
                         CheckApiKeyLabel(input, api_status_label, net2)
               ELSE UNCHANGED << summarizer, api_status_label >>
  /\ UNCHANGED << selected_files, process_btn, select_btn, clear_btn,
                  save_btn, status_label, results_text, afterq, threads,
                  completions >>
  /\ UNCHANGED parser

\* select_files: the select button is pressed; an empty answer changes nothing
SelectFiles ==
  /\ select_btn = "normal"
  /\ \E files \in Selections \cup { <<>> } :
       IF files # <<>>
       THEN /\ selected_files' = files
            /\ process_btn' = ProcessBtnState(files, summarizer)
       ELSE UNCHANGED << selected_files, process_btn >>
  /\ UNCHANGED << api_key, summarizer, select_btn, clear_btn, save_btn,
                  api_status_label, status_label, results_text, afterq,
                  threads, completions >>
  /\ UNCHANGED parser

\* clear_selection: the clear button is pressed
ClearSelection ==
  /\ clear_btn = "normal"
  /\ selected_files' = <<>>
  /\ process_btn' = ProcessBtnState(<<>>, summarizer)
  /\ results_text' = <<>>
  /\ save_btn' = "disabled"
  /\ UNCHANGED << api_key, summarizer, select_btn, clear_btn,
                  api_status_label, status_label, afterq, threads,
                  completions >>
  /\ UNCHANGED parser

\* a thread that has not run yet
NewThread == [pc |-> "start", files |-> <<>>, i |-> 0, all_results |-> <<>>]

\* variant: process_btn is not disabled before the thread is started
ProcessFilesKeepsButton ==
  /\ process_btn = "normal"
  /\ Len(threads) < MaxWorkers
  /\ IF selected_files = <<>> \/ summarizer = "None"
     THEN UNCHANGED << select_btn, clear_btn, results_text, threads,
                       completions >>
     ELSE /\ select_btn' = "disabled"
          /\ clear_btn' = "disabled"
          /\ results_text' = <<>>
          /\ threads' = Append(threads, NewThread)
          /\ completions' = 0
  /\ UNCHANGED << api_key, summarizer, selected_files, process_btn, save_btn,
                  api_status_label, status_label, afterq >>
  /\ UNCHANGED parser

\* process_files: the process button is pressed
ProcessFiles ==
  /\ process_btn = "normal"
  /\ Len(threads) < MaxWorkers
  /\ IF selected_files = <<>> \/ summarizer = "None"
     THEN UNCHANGED << process_btn, select_btn, clear_btn, results_text,
                       threads, completions >>
     ELSE /\ process_btn' = "disabled"
          /\ select_btn' = "disabled"
          /\ clear_btn' = "disabled"
          /\ results_text' = <<>>
          /\ threads' = Append(threads, NewThread)
          /\ completions' = 0
  /\ UNCHANGED << api_key, summarizer, selected_files, save_btn,
                  api_status_label, status_label, afterq >>
  /\ UNCHANGED parser

RemoveAt(q, t) == SubSeq(q, 1, t - 1) \o SubSeq(q, t + 1, Len(q))

\* the thread starts to run: enumerate(self.selected_files)
WorkerStart(t) ==
  /\ threads[t].pc = "start"
  /\ threads' = [threads EXCEPT ![t] = [@ EXCEPT !.pc = "loop", !.i = 1,
                                         !.files = selected_files]]
  /\ UNCHANGED << api_key, summarizer, selected_files, process_btn,
                  select_btn, clear_btn, save_btn, api_status_label,
                  status_label, results_text, afterq, completions >>
  /\ UNCHANGED parser

\* the callbacks one pass of the loop gives to root.after, and its result:
\* parse_vtt_file returned a dict (ok) or None
FileCallbacks(file, ok) ==
  IF ok
  THEN << [cb |-> "status", arg |-> "Processing"],
          [cb |-> "status", arg |-> "AI Summarizing"],
          [cb |-> "append", arg |-> [file |-> file, kind |-> "summary"]] >>
  ELSE << [cb |-> "status", arg |-> "Processing"],
          [cb |-> "append",
           arg |-> [file |-> file, kind |-> "Failed to parse"]] >>

\* one pass of the loop of _process_files_worker
WorkerFile(t) ==
  /\ threads[t].pc = "loop"
  /\ threads[t].i <= Len(threads[t].files)
  /\ \E ok \in BOOLEAN :
       LET file == threads[t].files[threads[t].i]
           cbs == FileCallbacks(file, ok)
       IN  /\ afterq' = afterq \o cbs
           /\ threads' = [threads EXCEPT ![t] =
                 [@ EXCEPT !.i = @ + 1,
                           !.all_results = Append(@, cbs[Len(cbs)].arg)]]
  /\ UNCHANGED << api_key, summarizer, selected_files, process_btn,
                  select_btn, clear_btn, save_btn, api_status_label,
                  status_label, results_text, completions >>
  /\ UNCHANGED parser

\* the loop is over: root.after(0, self._processing_complete), thread ends
WorkerFinish(t) ==
  /\ threads[t].pc = "loop"
  /\ threads[t].i > Len(threads[t].files)
  /\ afterq' = Append(afterq, [cb |-> "complete", arg |-> "None"])
  /\ completions' = completions + 1
  /\ threads' = RemoveAt(threads, t)
  /\ UNCHANGED << api_key, summarizer, selected_files, process_btn,
                  select_btn, clear_btn, save_btn, api_status_label,
                  status_label, results_text >>
  /\ UNCHANGED parser

\* variant: the except clause shows the error only
WorkerRaiseNoComplete(t) ==
  /\ threads[t].pc = "loop"
  /\ threads[t].i <= Len(threads[t].files)
  /\ afterq' = Append(afterq, [cb |-> "showerror", arg |-> "None"])
  /\ threads' = RemoveAt(threads, t)
  /\ UNCHANGED << api_key, summarizer, selected_files, process_btn,
                  select_btn, clear_btn, save_btn, api_status_label,
                  status_label, results_text, completions >>
  /\ UNCHANGED parser

\* an exception escapes a pass of the loop: the except clause schedules the
\* error box and _processing_complete, thread ends
WorkerRaise(t) ==
  /\ threads[t].pc = "loop"
  /\ threads[t].i <= Len(threads[t].files)
  /\ afterq' = afterq \o << [cb |-> "showerror", arg |-> "None"],
                            [cb |-> "complete", arg |-> "None"] >>
  /\ completions' = completions + 1
  /\ threads' = RemoveAt(threads, t)
  /\ UNCHANGED << api_key, summarizer, selected_files, process_btn,
                  select_btn, clear_btn, save_btn, api_status_label,
                  status_label, results_text >>
  /\ UNCHANGED parser

\* the steps of the worker threads
Worker ==
  \E t \in 1..Len(threads) :
    \/ WorkerStart(t)
    \/ WorkerFile(t)
    \/ WorkerFinish(t)
    \/ WorkerRaise(t)

\* the main loop runs the oldest callback: the status lambdas,
\* _append_result, messagebox.showerror, _processing_complete
Dispatch ==
  /\ afterq # <<>>
  /\ afterq' = Tail(afterq)
  /\ LET c == Head(afterq) IN
     /\ status_label' =
          IF c.cb = "status" THEN c.arg
          ELSE IF c.cb = "complete" THEN "AI summarization complete!"
          ELSE status_label
     /\ results_text' =
          IF c.cb = "append" THEN Append(results_text, c.arg)
          ELSE results_text
     /\ save_btn' = IF c.cb = "append" THEN "normal" ELSE save_btn
     /\ process_btn' =
          IF c.cb = "complete"
          THEN ProcessBtnState(selected_files, summarizer) ELSE process_btn
     /\ select_btn' = IF c.cb = "complete" THEN "normal" ELSE select_btn
     /\ clear_btn' = IF c.cb = "complete" THEN "normal" ELSE clear_btn
  /\ UNCHANGED << api_key, summarizer, selected_files, api_status_label,
                  threads, completions >>
  /\ UNCHANGED parser

NextGUI ==
  \/ SetupApiKey
  \/ SelectFiles
  \/ ClearSelection
  \/ ProcessFiles
  \/ Worker
  \/ Dispatch

SpecGUI == InitGUI /\ [][NextGUI]_vars

\* the threads get to run and the main loop runs its callbacks
SpecGUIFair ==
  /\ InitGUI
  /\ [][NextGUI]_vars
  /\ WF_vars(Worker)
  /\ WF_vars(Dispatch)

\* ------------------------------------------------------------------------
\* Properties
\* ------------------------------------------------------------------------
Returned == pc \in {"parsed", "texted", "done"}

SpeakersOf(convs) == { convs[k].speaker : k \in 1..Len(convs) }

\* positions at which a maximal run of one speaker starts
RunStarts(convs) ==
  { k \in 1..Len(convs) : k = 1 \/ convs[k].speaker # convs[k - 1].speaker }

\* last position of the run that starts at k
RunEnd(convs, k) ==
  CHOOSE e \in k..Len(convs) :
    /\ \A j \in (k + 1)..e : j \notin RunStarts(convs)
    /\ e = Len(convs) \/ (e + 1) \in RunStarts(convs)

\* "speaker: text" of the run that starts at k
Paragraph(convs, k) ==
  LET e == RunEnd(convs, k) IN
  convs[k].speaker \o <<":", " ">>
    \o Join([j \in 1..(e - k + 1) |-> convs[k + j - 1].text], << " " >>)

\* the run starts in increasing order
StartSeq(convs) ==
  LET S == RunStarts(convs) IN
  CHOOSE f \in [1..Cardinality(S) -> S] :
    \A a, b \in 1..Cardinality(S) : a < b => f[a] < f[b]

Narrative(convs) ==
  LET f == StartSeq(convs) IN
  Join([i \in 1..Len(f) |-> Paragraph(convs, f[i])], << "\n", "\n" >>)

\* C1: the conversation text of a parse result is one "speaker: text"
\* paragraph per maximal run of consecutive utterances of one speaker, in
\* order, the run's texts joined by single spaces and the paragraphs by a
\* blank line.
C1_TurnMerging ==
  pc \in {"texted", "done"} =>
    conversation_text = Narrative(parsed_data.conversations)

\* [(A,"hi"), (A,"there"), (B,"yo")] has given "A: hi there\n\nB: yo"
C1_Witness ==
  /\ pc = "texted"
  /\ Len(parsed_data.conversations) = 3
  /\ conversation_text =
       <<"A", ":", " ", "h", "i", " ", "t", "h", "e", "r", "e", "\n", "\n",
         "B", ":", " ", "y", "o">>

\* C2: the speakers returned by parse_vtt_file are exactly the distinct
\* speaker values of the returned conversations.
C2_SpeakersExact ==
  Returned => parsed_data.speakers = SpeakersOf(parsed_data.conversations)

\* a result with two speakers and two utterances out of three blocks
C2_Witness ==
  /\ pc = "parsed"
  /\ Cardinality(parsed_data.speakers) = 2
  /\ Len(parsed_data.conversations) = 2
  /\ Len(blocks) = 3

\* the block the loop is at has a timestamp line whose split on ' --> '
\* does not give exactly two parts
BadTimestampSplit(block) ==
  /\ Len(BlockLines(block)) >= 3
  /\ Len(SplitOn(BlockLines(block)[2], <<" ", "-", "-", ">", " ">>)) # 2

\* C3: a block whose timestamp line does not split on ' --> ' into exactly
\* two parts is skipped, it adds no utterance.
C3_BadTimestampSkipped ==
  [][(pc = "loop" /\ bi <= Len(blocks) /\ BadTimestampSplit(blocks[bi]))
       => conversations' = conversations]_vars

AllSpace(s) == \A i \in 1..Len(s) : IsSpace(s[i])

\* position of the first ':' of s, 0 when there is none
FirstColon(s) ==
  IF \A i \in 1..Len(s) : s[i] # ":" THEN 0
  ELSE CHOOSE i \in 1..Len(s) :
         s[i] = ":" /\ \A j \in 1..(i - 1) : s[j] # ":"

\* the joined content has no colon, only whitespace before the first colon,
\* or only whitespace after it
NoSpeakerOrText(s) ==
  LET c == FirstColon(s) IN
  \/ c = 0
  \/ AllSpace(SubSeq(s, 1, c - 1))
  \/ AllSpace(SubSeq(s, c + 1, Len(s)))

\* C4: every utterance has a non-empty speaker and a non-empty text, and a
\* block whose joined content has no colon, only whitespace before the first
\* colon or only whitespace after it is discarded.
C4_NonEmptySpeakerAndText ==
  /\ [](\A k \in 1..Len(conversations) :
          conversations[k].speaker # <<>> /\ conversations[k].text # <<>>)
  /\ [](Returned => \A k \in 1..Len(parsed_data.conversations) :
          /\ parsed_data.conversations[k].speaker # <<>>
          /\ parsed_data.conversations[k].text # <<>>)
  /\ [][(/\ pc = "loop"
         /\ bi <= Len(blocks)
         /\ Len(BlockLines(blocks[bi])) >= 3
         /\ NoSpeakerOrText(SpeakerText(blocks[bi])))
          => conversations' = conversations /\ speakers' = speakers]_vars

\* the loop has just discarded a block with a good timestamp line and no
\* speaker, after it had accepted another
C4_Witness ==
  /\ pc = "loop"
  /\ bi = 3
  /\ ~SkipsBlock(blocks[2])
  /\ NoSpeakerOrText(SpeakerText(blocks[2]))
  /\ Len(conversations) = 1

\* the utterance the loop has just appended
Appended(new) == new[Len(new)]

\* C5: the content lines of an accepted block, from the third on, are joined
\* with single spaces; the speaker is the trimmed part before the first
\* colon of the joined string and the text the trimmed rest after it.
C5_FirstColonSplits ==
  [][(pc = "loop" /\ Len(conversations') > Len(conversations)) =>
       LET lines == SplitOn(Strip(blocks[bi]), << "\n" >>)
           s == Join(SubSeq(lines, 3, Len(lines)), << " " >>)
           c == FirstColon(s)
       IN  /\ c > 0
           /\ Appended(conversations').speaker = Strip(SubSeq(s, 1, c - 1))
           /\ Appended(conversations').text = Strip(SubSeq(s, c + 1, Len(s)))
    ]_vars

\* an accepted block of two content lines whose text keeps a later colon
C5_Witness ==
  /\ pc = "loop"
  /\ bi > 1
  /\ conversations # <<>>
  /\ Len(BlockLines(blocks[bi - 1])) = 4
  /\ Appended(conversations).speaker = << "B" >>
  /\ \E i \in 1..Len(Appended(conversations).text) :
       Appended(conversations).text[i] = ":"

\* the marker occurs in line
HasMarker(line) ==
  \E i \in 1..(Len(line) - 2) : SubSeq(line, i, i + 2) = <<"-", "-", ">">>

\* number of lines of the trimmed block
NumLines(block) ==
  1 + Cardinality({ i \in 1..Len(Strip(block)) : Strip(block)[i] = "\n" })

\* the block is empty after trimming, is the header token, has fewer than
\* three lines, or has no marker on its second line
Malformed(block) ==
  \/ AllSpace(block)
  \/ Strip(block) = <<"W", "E", "B", "V", "T", "T">>
  \/ NumLines(block) < 3
  \/ ~HasMarker(BlockLines(block)[2])

\* C6: a block that is empty after trimming, is only the header token, has
\* fewer than three lines or has no '-->' on its second line adds no
\* utterance, leaves speakers unchanged, and the loop goes on to the next
\* block.
C6_MalformedBlockSkipped ==
  [][(pc = "loop" /\ bi <= Len(blocks) /\ Malformed(blocks[bi])) =>
       /\ conversations' = conversations
       /\ speakers' = speakers
       /\ bi' = bi + 1
       /\ pc' = "loop"]_vars

\* a block without the marker was skipped and the block after it accepted
C6_Witness ==
  /\ pc = "parsed"
  /\ Len(blocks) = 2
  /\ NumLines(blocks[1]) >= 3
  /\ ~HasMarker(BlockLines(blocks[1])[2])
  /\ Len(parsed_data.conversations) = 1

\* the blocks that are not empty after trimming, among the first n
NonEmptyBlocks(n) ==
  { k \in 1..n : k <= Len(blocks) /\ ~AllSpace(blocks[k]) }

\* C7: the loop appends at most one utterance per non-empty block, at the
\* end of the list and in block order, so that the number of utterances is
\* at most the number of non-empty blocks.
C7_OneUtterancePerBlockInOrder ==
  /\ [](pc = "loop" =>
          Len(conversations) <= Cardinality(NonEmptyBlocks(bi - 1)))
  /\ [](Returned =>
          Len(parsed_data.conversations)
            <= Cardinality(NonEmptyBlocks(Len(blocks))))
  /\ [][pc = "loop" =>
          \/ conversations' = conversations
          \/ /\ bi \in NonEmptyBlocks(bi)
             /\ conversations' = Append(conversations, Entry(blocks[bi]))
       ]_vars
  /\ [][pc = "loop" /\ pc' = "parsed" =>
          parsed_data'.conversations = conversations]_vars

\* two utterances out of three non-empty blocks, in block order
C7_Witness ==
  /\ pc = "parsed"
  /\ Cardinality(NonEmptyBlocks(Len(blocks))) = 3
  /\ Len(parsed_data.conversations) = 2
  /\ parsed_data.conversations[1].speaker = << "A" >>
  /\ parsed_data.conversations[2].speaker = << "B" >>

\* number of whitespace-delimited tokens of t
Tokens(t) ==
  Cardinality({ i \in 1..Len(t) :
                  ~IsSpace(t[i]) /\ (i = 1 \/ IsSpace(t[i - 1])) })

\* sum of the token counts of the utterances of speaker sp
RECURSIVE WordsOf(_, _)
WordsOf(convs, sp) ==
  IF convs = <<>> THEN 0
  ELSE (IF Head(convs).speaker = sp THEN Tokens(Head(convs).text) ELSE 0)
         + WordsOf(Tail(convs), sp)

HasStats == pc = "done" /\ parsed_data.conversations # <<>>

OneTwoThree ==
  <<"o", "n", "e", " ", "t", "w", "o", " ", "t", "h", "r", "e", "e">>

\* C8: the keys of speaker_word_counts are the speakers of the parse result
\* and each value is the sum of the numbers of whitespace-delimited tokens
\* of that speaker's utterance texts.
C8_WordCounts ==
  HasStats =>
    /\ DOMAIN stats.speaker_word_counts = parsed_data.speakers
    /\ \A sp \in parsed_data.speakers :
         stats.speaker_word_counts[sp] = WordsOf(parsed_data.conversations, sp)

\* "hi" and "one two three" of the same speaker count 4
C8_Witness ==
  /\ HasStats
  /\ Len(parsed_data.conversations) = 2
  /\ parsed_data.conversations[2].text = OneTwoThree
  /\ stats.speaker_word_counts[<< "A" >>] = 4

\* C9: duration is "<start_time of the first utterance> to <end_time of the
\* last utterance>".
C9_Duration ==
  HasStats =>
    stats.duration =
      parsed_data.conversations[1].start_time
        \o <<" ", "t", "o", " ">>
        \o parsed_data.conversations[Len(parsed_data.conversations)].end_time

\* three utterances, from 05 to 41
C9_Witness ==
  /\ HasStats
  /\ Len(parsed_data.conversations) = 3
  /\ stats.duration = <<"0", "5", " ", "t", "o", " ", "4", "1">>

\* C10: the stats have the keys duration, total_entries, speaker_word_counts
\* and total_speakers; total_entries is the number of utterances and the
\* total_entries of the parse result, total_speakers the number of distinct
\* speakers of the utterances.
C10_StatsShape ==
  HasStats =>
    /\ DOMAIN stats = {"duration", "total_entries", "speaker_word_counts",
                       "total_speakers"}
    /\ stats.total_entries = Len(parsed_data.conversations)
    /\ stats.total_entries = parsed_data.total_entries
    /\ stats.total_speakers =
         Cardinality(SpeakersOf(parsed_data.conversations))

\* three utterances of two speakers
C10_Witness ==
  /\ HasStats
  /\ stats.total_entries = 3
  /\ stats.total_speakers = 2

\* no block of the document gives an utterance
NoValidBlock(doc) ==
  \A k \in 1..Len(SplitOn(doc, << "\n", "\n" >>)) :
    LET b == SplitOn(doc, << "\n", "\n" >>)[k] IN
    Malformed(b) \/ NoSpeakerOrText(SpeakerText(b))

\* C11 as stated: the stats of a result without utterances have a zero entry
\* count and a zero speaker count.
C11_ZeroCounts ==
  (pc = "done" /\ parsed_data.conversations = <<>>) =>
    /\ {"total_entries", "total_speakers"} \subseteq DOMAIN stats
    /\ stats.total_entries = 0
    /\ stats.total_speakers = 0

\* C11 (amended): parsing an empty document, or one without a valid
\* utterance, succeeds with no utterances, no speakers and total_entries 0,
\* and the stats of that result are the empty mapping.
C11_EmptyResult ==
  (Returned /\ NoValidBlock(content)) =>
    /\ parsed_data # None
    /\ parsed_data.conversations = <<>>
    /\ parsed_data.speakers = {}
    /\ parsed_data.total_entries = 0
    /\ pc = "done" => DOMAIN stats = {}

\* the stats of the empty document have been computed
C11_Witness ==
  /\ pc = "done"
  /\ content = <<>>
  /\ parsed_data.conversations = <<>>
  /\ DOMAIN stats = {}

\* C13: get_conversation_text and get_meeting_stats do not raise on a parse
\* result, the empty one included, and the conversation text of a result
\* without utterances is the empty string.
C13_NoRaise ==
  /\ pc # "raised"
  /\ Returned => ~TextRaises(parsed_data) /\ ~StatsRaises(parsed_data)
  /\ (pc \in {"texted", "done"} /\ parsed_data.conversations = <<>>)
       => conversation_text = <<>>

\* both were called on the result of a document whose only block is dropped
C13_Witness ==
  /\ pc = "done"
  /\ content # <<>>
  /\ parsed_data.conversations = <<>>
  /\ conversation_text = <<>>

\* conversations and speakers after the blocks bs, from empty accumulators
RECURSIVE ConversationsOf(_)
ConversationsOf(bs) ==
  IF bs = <<>> THEN <<>>
  ELSE LoopConversations(ConversationsOf(SubSeq(bs, 1, Len(bs) - 1)),
                         bs[Len(bs)])

RECURSIVE AllSpeakersOf(_)
AllSpeakersOf(bs) ==
  IF bs = <<>> THEN {}
  ELSE LoopSpeakers(AllSpeakersOf(SubSeq(bs, 1, Len(bs) - 1)), bs[Len(bs)])

\* the result of parsing doc, as a function of doc alone
ParseOf(doc) ==
  [conversations |-> ConversationsOf(SplitOn(doc, << "\n", "\n" >>)),
   speakers |-> AllSpeakersOf(SplitOn(doc, << "\n", "\n" >>)),
   total_entries |-> Len(ConversationsOf(SplitOn(doc, << "\n", "\n" >>))),
   file_path |-> FilePath]

\* C12: a document that cannot be read makes parse_vtt_file return None to
\* its caller, which no successful result is, that of a document without
\* utterances included; the call after a failed one is not affected.
C12_ReadFailure ==
  /\ pc = "failed" => parsed_data = None
  /\ Returned => parsed_data # None /\ "conversations" \in DOMAIN parsed_data
  /\ (Returned /\ history # <<>> /\ ~history[Len(history)].ok)
       => parsed_data = ParseOf(content)

\* after a failed call, a document without utterances has been parsed
C12_Witness ==
  /\ pc = "parsed"
  /\ history # <<>>
  /\ ~history[Len(history)].ok
  /\ history[Len(history)].parsed_data = None
  /\ parsed_data.conversations = <<>>

\* C14: whatever the order of the calls on one VTTParser, the result of each
\* call and its stats are those of its own document, parse_vtt_file leaves
\* the fields speakers and conversations of the instance alone, and a
\* repeated call on a document gives the same stats.
C14_CallsIndependent ==
  /\ Returned => parsed_data = ParseOf(content)
  /\ pc = "done" => stats = GetMeetingStats(ParseOf(content))
  /\ t2.pc = "parsed" => t2.parsed_data = ParseOf(t2.content)
  /\ self_speakers = {} /\ self_conversations = <<>>
  /\ \A k \in 1..Len(history) :
       (pc = "done" /\ history[k].ok /\ history[k].content = content)
         => stats = history[k].stats

\* the first caller is at its second document, after a first one that had
\* utterances, and the second caller has returned in between
C14_Witness ==
  /\ pc = "done"
  /\ history # <<>>
  /\ history[1].ok
  /\ history[1].parsed_data.conversations # <<>>
  /\ history[1].content # content
  /\ Len(parsed_data.conversations) = 1
  /\ t2.pc = "parsed"
  /\ t2.content # content

\* a worker is alive or its _processing_complete has not run yet
Busy ==
  \/ threads # <<>>
  \/ \E k \in 1..Len(afterq) : afterq[k].cb = "complete"

\* C15: at most one worker is alive, and from process_files until
\* _processing_complete has run the process, select and clear buttons are
\* disabled and selected_files does not change, whatever the user does.
C15_SingleWorker ==
  /\ [](Len(threads) <= 1)
  /\ [](Busy => /\ process_btn = "disabled"
                /\ select_btn = "disabled"
                /\ clear_btn = "disabled")
  /\ [][Busy => selected_files' = selected_files]_vars
  /\ [](\A t \in 1..Len(threads) :
          threads[t].pc = "loop" => threads[t].files = selected_files)

\* the key was changed in setup_api_key while the worker is at its second
\* file
C15_Witness ==
  /\ Len(threads) = 1
  /\ threads[1].pc = "loop"
  /\ threads[1].i = 2
  /\ api_key = "bad"
  /\ summarizer = "good"

\* the entries of the append callbacks that have not run yet
RECURSIVE PendingAppends(_)
PendingAppends(q) ==
  IF q = <<>> THEN <<>>
  ELSE IF Head(q).cb = "append"
       THEN << Head(q).arg >> \o PendingAppends(Tail(q))
       ELSE PendingAppends(Tail(q))

\* C16: a worker that was started schedules _processing_complete, once,
\* also when files fail to parse or an exception escapes the loop; each
\* file it has handled has one entry, in selection order, in all_results
\* and in what is or will be shown; after completion the select and clear
\* buttons are enabled.
C16_WorkerCompletes ==
  /\ (threads # <<>>) ~> (threads = <<>> /\ completions = 1)
  /\ (threads # <<>>) ~> (~Busy /\ select_btn = "normal"
                                /\ clear_btn = "normal")
  /\ [](completions <= 1)
  /\ [](~Busy => select_btn = "normal" /\ clear_btn = "normal")
  /\ [](\A t \in 1..Len(threads) :
          threads[t].pc = "loop" =>
            /\ Len(threads[t].all_results) = threads[t].i - 1
            /\ \A k \in 1..Len(threads[t].all_results) :
                 threads[t].all_results[k].file = threads[t].files[k]
            /\ results_text \o PendingAppends(afterq)
                 = threads[t].all_results)

\* a run of two files, the first of which failed to parse, has completed
C16_Witness ==
  /\ ~Busy
  /\ completions = 1
  /\ Len(selected_files) = 2
  /\ Len(results_text) = 2
  /\ results_text[1] = [file |-> selected_files[1], kind |-> "Failed to parse"]
  /\ results_text[2] = [file |-> selected_files[2], kind |-> "summary"]
  /\ select_btn = "normal"
  /\ clear_btn = "normal"

\* C17: when no processing is in progress, the process button is enabled
\* exactly when a file is selected and a summarizer is configured.
C17_ProcessButtonState ==
  ~Busy =>
    (process_btn = "normal" <=>
       (selected_files # <<>> /\ summarizer # "None"))
====
